---- MODULE Spec2Model ----
(***************************************************************************)
(* FlowDoc graph builder (graphBuilder.ts) and its numeric auto-linker.    *)
(*                                                                         *)
(* A JavaScript string is a sequence of one-character strings, so that     *)
(* indexOf, slice, the numeric-suffix regular expression and localeCompare *)
(* are computed on characters.  null and the empty string are both falsy   *)
(* in the conditions of the code; both are the empty sequence here.        *)
(* A Map is a function together with its insertion order where the code    *)
(* iterates over it: nodesById is the sequence of retained records.        *)
(***************************************************************************)
EXTENDS Integers, Sequences, FiniteSets, TLC

VARIABLES records, config, topic, currentGraph, prevGraph, prevTopic, lastInput, calls,
          callArg, callResult,
          activatePc, isGitRepo, pendingNavigation, indexingComplete,
          receivedRequests, processedRequests,
          document, nodesByFile, indexFileCalls, deleteEvent

graphVars == <<records, config, topic, currentGraph, prevGraph, prevTopic, lastInput, calls>>

\* the argument and the result of one call of a parsing function
parseVars == <<callArg, callResult>>

\* extension.ts: activate, FlowDocUriHandler and the module-level variables
navigationVars ==
  <<activatePc, isGitRepo, pendingNavigation, indexingComplete,
    receivedRequests, processedRequests>>

\* workspaceIndexer.ts: one watched file, its entry of index.nodesByFile, the
\* indexFile calls in flight and the delete event of the watcher
indexerVars == <<document, nodesByFile, indexFileCalls, deleteEvent>>

vars == <<graphVars, parseVars, navigationVars, indexerVars>>

(***************************************************************************)
(* Characters and strings                                                  *)
(***************************************************************************)
Digits == <<"0", "1", "2", "3", "4", "5", "6", "7", "8", "9">>

Lower == <<"a", "b", "c", "d", "e", "f", "g", "h", "i", "j", "k", "l", "m",
           "n", "o", "p", "q", "r", "s", "t", "u", "v", "w", "x", "y", "z">>

Upper == <<"A", "B", "C", "D", "E", "F", "G", "H", "I", "J", "K", "L", "M",
           "N", "O", "P", "Q", "R", "S", "T", "U", "V", "W", "X", "Y", "Z">>

Punct == <<"_", "-", "@">>

Range(s) == {s[i] : i \in DOMAIN s}

IndexIn(s, c) == CHOOSE i \in DOMAIN s : s[i] = c

DigitSet == Range(Digits)

DigitValues == [c \in DigitSet |-> IndexIn(Digits, c) - 1]

IsDigit(c) == c \in DigitSet

DigitValue(c) == DigitValues[c]

NoString == <<>>

\* dependency.indexOf("@"): the 0-based index of the first "@", -1 if none
IndexOfAt(s) ==
  IF \E i \in DOMAIN s : s[i] = "@"
    THEN (CHOOSE i \in DOMAIN s : s[i] = "@" /\ \A j \in 1..(i - 1) : s[j] # "@") - 1
    ELSE -1

\* s.slice(from) and s.slice(0, to) with 0-based indexes
SliceFrom(s, from) == SubSeq(s, from + 1, Len(s))

SliceTo(s, to) == SubSeq(s, 1, to)

parseCrossRepoDependency(dependency) ==
  LET atIndex == IndexOfAt(dependency)
  IN  IF atIndex > 0 /\ atIndex < Len(dependency) - 1
        THEN [isExternal |-> TRUE,
              repoName   |-> SliceTo(dependency, atIndex),
              nodeId     |-> SliceFrom(dependency, atIndex + 1)]
        ELSE [isExternal |-> FALSE, repoName |-> NoString, nodeId |-> NoString]

AllDigits(s) == Len(s) > 0 /\ \A i \in DOMAIN s : IsDigit(s[i])

RECURSIVE parseInt(_)
parseInt(s) ==
  IF Len(s) = 0 THEN 0
  ELSE 10 * parseInt(SubSeq(s, 1, Len(s) - 1)) + DigitValue(s[Len(s)])

\* /^(.+?)(\d+)$/ : the lazy first group takes the fewest characters (at least
\* one) that leave a non-empty run of digits up to the end of the id
NumericSplits(id) == {k \in 1..(Len(id) - 1) : AllDigits(SubSeq(id, k + 1, Len(id)))}

MinOf(S) == CHOOSE k \in S : \A j \in S : k <= j

NoParse == [matched |-> FALSE, prefix |-> NoString, numericValue |-> 0, originalSuffix |-> NoString]

parseNumericId(id) ==
  IF NumericSplits(id) = {} THEN NoParse
  ELSE LET k == MinOf(NumericSplits(id))
       IN  [matched        |-> TRUE,
            prefix         |-> SubSeq(id, 1, k),
            numericValue   |-> parseInt(SubSeq(id, k + 1, Len(id))),
            originalSuffix |-> SubSeq(id, k + 1, Len(id))]

(***************************************************************************)
(* a.localeCompare(b).  The comparison is the one of the ICU root          *)
(* collation on the characters used here: punctuation before digits before *)
(* letters, letters compared without case first and lower case before      *)
(* upper case only when the strings are otherwise equal.                   *)
(***************************************************************************)
Chars == Range(Punct) \cup Range(Digits) \cup Range(Lower) \cup Range(Upper)

PrimaryWeights ==
  [c \in Chars |->
     IF c \in Range(Punct) THEN IndexIn(Punct, c)
     ELSE IF c \in Range(Digits) THEN 10 + IndexIn(Digits, c)
     ELSE IF c \in Range(Lower) THEN 100 + IndexIn(Lower, c)
     ELSE 100 + IndexIn(Upper, c)]

TertiaryWeights == [c \in Chars |-> IF c \in Range(Upper) THEN 1 ELSE 0]

PrimaryWeight(c) == PrimaryWeights[c]

TertiaryWeight(c) == TertiaryWeights[c]

\* lexicographic comparison of two sequences of weights: -1, 0 or 1
RECURSIVE LexCompare(_, _, _)
LexCompare(a, b, i) ==
  IF i > Len(a) /\ i > Len(b) THEN 0
  ELSE IF i > Len(a) THEN -1
  ELSE IF i > Len(b) THEN 1
  ELSE IF a[i] < b[i] THEN -1
  ELSE IF a[i] > b[i] THEN 1
  ELSE LexCompare(a, b, i + 1)

localeCompare(a, b) ==
  LET p == LexCompare([i \in DOMAIN a |-> PrimaryWeight(a[i])],
                      [i \in DOMAIN b |-> PrimaryWeight(b[i])], 1)
  IN  IF p # 0 THEN p
      ELSE LexCompare([i \in DOMAIN a |-> TertiaryWeight(a[i])],
                      [i \in DOMAIN b |-> TertiaryWeight(b[i])], 1)

\* Array.prototype.sort((a, b) => a.localeCompare(b)): stable, ascending
RECURSIVE InsertSorted(_, _)
InsertSorted(sorted, x) ==
  IF Len(sorted) = 0 THEN <<x>>
  ELSE IF localeCompare(sorted[Len(sorted)], x) <= 0 THEN Append(sorted, x)
  ELSE Append(InsertSorted(SubSeq(sorted, 1, Len(sorted) - 1), x), sorted[Len(sorted)])

RECURSIVE SortFrom(_, _, _)
SortFrom(s, i, acc) ==
  IF i > Len(s) THEN acc ELSE SortFrom(s, i + 1, InsertSorted(acc, s[i]))

sortByLocaleCompare(s) == SortFrom(s, 1, <<>>)

(***************************************************************************)
(* Map and array helpers                                                   *)
(***************************************************************************)
EmptyMap == [k \in {} |-> <<>>]

\* map.get(k) || []
MapGet(m, k) == IF k \in DOMAIN m THEN m[k] ELSE <<>>

MapSet(m, k, v) == [x \in (DOMAIN m) \cup {k} |-> IF x = k THEN v ELSE m[x]]

Includes(s, x) == \E i \in DOMAIN s : s[i] = x

\* roots.splice(roots.indexOf(id), 1): removes the first occurrence
RemoveFirst(s, x) ==
  IF ~Includes(s, x) THEN s
  ELSE LET i == CHOOSE j \in DOMAIN s : s[j] = x /\ \A h \in 1..(j - 1) : s[h] # x
       IN  SubSeq(s, 1, i - 1) \o SubSeq(s, i + 1, Len(s))

\* nodesById.has(id) / nodesById.get(id) on the sequence of retained records
HasNode(nodes, id) == \E i \in DOMAIN nodes : nodes[i].id = id

NodeIndex(nodes, id) == CHOOSE i \in DOMAIN nodes : nodes[i].id = id

GetNode(nodes, id) == nodes[NodeIndex(nodes, id)]

(***************************************************************************)
(* Configuration: config.repos is undefined or a plain object keyed by the *)
(* recognized repository names.  `name in config.repos` is true of the     *)
(* object's own keys and of the keys it inherits from Object.prototype.    *)
(***************************************************************************)
NoRepos == [defined |-> FALSE, keys |-> {}]

Repos(names) == [defined |-> TRUE, keys |-> names]

Str_constructor == <<"c", "o", "n", "s", "t", "r", "u", "c", "t", "o", "r">>

Str_toString == <<"t", "o", "S", "t", "r", "i", "n", "g">>

Str_valueOf == <<"v", "a", "l", "u", "e", "O", "f">>

ObjectPrototypeKeys == {Str_constructor, Str_toString, Str_valueOf}

KeyInRepos(name, repos) == name \in repos.keys \/ name \in ObjectPrototypeKeys

\* config?.repos && crossRepo.repoName && crossRepo.repoName in config.repos
isValidCrossRepo(crossRepo, cfg) ==
  /\ cfg.repos.defined
  /\ crossRepo.repoName # NoString
  /\ KeyInRepos(crossRepo.repoName, cfg.repos)

(***************************************************************************)
(* Warnings.  The message text is kept as the template that produced it    *)
(* and the reference it quotes.                                            *)
(***************************************************************************)
Warning(type, nodeId, template, ref, sourceFile, sourceLine) ==
  [type |-> type, nodeId |-> nodeId, message |-> [template |-> template, ref |-> ref],
   sourceFile |-> sourceFile, sourceLine |-> sourceLine]

(***************************************************************************)
(* buildGraph, step 1: populate nodesById, first wins on duplicates        *)
(***************************************************************************)
\* mutant: the records are not filtered by topic
filterByTopic_unfiltered(nodes, t) == nodes

filterByTopic(nodes, t) == SelectSeq(nodes, LAMBDA n : n.topic = t)

\* mutant: the last record of an id replaces the first
RECURSIVE populateNodesById_lastWins(_, _, _)
populateNodesById_lastWins(filtered, i, st) ==
  IF i > Len(filtered) THEN st
  ELSE LET node == filtered[i]
       IN  IF HasNode(st.nodesById, node.id)
             THEN populateNodesById_lastWins(filtered, i + 1,
                    [st EXCEPT !.nodesById[NodeIndex(st.nodesById, node.id)] = node,
                               !.warnings = Append(@,
                       Warning("duplicate-id", node.id, "Duplicate ID", node.id,
                               node.sourceFile, node.sourceLine))])
             ELSE populateNodesById_lastWins(filtered, i + 1,
                    [st EXCEPT !.nodesById = Append(@, node)])

RECURSIVE populateNodesById(_, _, _)
populateNodesById(filtered, i, st) ==
  IF i > Len(filtered) THEN st
  ELSE LET node == filtered[i]
       IN  IF HasNode(st.nodesById, node.id)
             THEN populateNodesById(filtered, i + 1,
                    [st EXCEPT !.warnings = Append(@,
                       Warning("duplicate-id", node.id, "Duplicate ID", node.id,
                               node.sourceFile, node.sourceLine))])
             ELSE populateNodesById(filtered, i + 1,
                    [st EXCEPT !.nodesById = Append(@, node)])

(***************************************************************************)
(* buildGraph, step 2: dependency edges and roots                          *)
(***************************************************************************)
\* mutant: a dependency that matches no node is recorded as an edge as well
resolveDependency_edgeToUnknown(node, nodesById, cfg, st) ==
  IF node.dependency = NoString
    THEN [st EXCEPT !.roots = Append(@, node.id)]
  ELSE [st EXCEPT
          !.roots = IF HasNode(nodesById, node.dependency) THEN @ ELSE Append(@, node.id),
          !.childrenByDependencyId =
             MapSet(@, node.dependency, Append(MapGet(@, node.dependency), node.id))]

\* mutant: a recognized cross-repo dependency does not make the node a root
resolveDependency_recognizedNotRoot(node, nodesById, cfg, st) ==
  IF node.dependency = NoString
    THEN [st EXCEPT !.roots = Append(@, node.id)]
  ELSE IF ~HasNode(nodesById, node.dependency)
    THEN LET crossRepo == parseCrossRepoDependency(node.dependency)
             valid     == crossRepo.isExternal /\ isValidCrossRepo(crossRepo, cfg)
         IN  IF valid THEN st
             ELSE [st EXCEPT
                     !.warnings = Append(@,
                        Warning("missing-dependency", node.id, "Dependency not found",
                                node.dependency, node.sourceFile, node.sourceLine)),
                     !.roots = Append(@, node.id)]
  ELSE [st EXCEPT !.childrenByDependencyId =
          MapSet(@, node.dependency, Append(MapGet(@, node.dependency), node.id))]

resolveDependency(node, nodesById, cfg, st) ==
  IF node.dependency = NoString
    THEN [st EXCEPT !.roots = Append(@, node.id)]
  ELSE IF ~HasNode(nodesById, node.dependency)
    THEN LET crossRepo == parseCrossRepoDependency(node.dependency)
             valid     == crossRepo.isExternal /\ isValidCrossRepo(crossRepo, cfg)
             warned    == IF valid THEN st.warnings
                          ELSE Append(st.warnings,
                                 Warning("missing-dependency", node.id, "Dependency not found",
                                         node.dependency, node.sourceFile, node.sourceLine))
         IN  [st EXCEPT !.warnings = warned, !.roots = Append(@, node.id)]
  ELSE [st EXCEPT !.childrenByDependencyId =
          MapSet(@, node.dependency, Append(MapGet(@, node.dependency), node.id))]

(***************************************************************************)
(* buildGraph, step 2b: explicit children declarations.  The loop state is *)
(* existingChildren, existingChildrenSet and the warnings.                 *)
(***************************************************************************)
\* mutant: a reference that matches no node is warned about and pushed
RECURSIVE addDeclaredChildren_pushesUnknown(_, _, _, _, _)
addDeclaredChildren_pushesUnknown(node, j, nodesById, cfg, loop) ==
  IF j > Len(node.children) THEN loop
  ELSE LET childRef  == node.children[j]
           crossRepo == parseCrossRepoDependency(childRef)
           pushed    == [loop EXCEPT !.existingChildren = Append(@, childRef),
                                     !.existingChildrenSet = @ \cup {childRef}]
           next ==
             IF childRef \in loop.existingChildrenSet THEN loop
             ELSE IF crossRepo.isExternal
               THEN IF isValidCrossRepo(crossRepo, cfg) THEN pushed
                    ELSE [pushed EXCEPT !.warnings = Append(@,
                            Warning("missing-dependency", node.id, "Child unknown repository",
                                    childRef, node.sourceFile, node.sourceLine))]
             ELSE IF ~HasNode(nodesById, childRef)
               THEN [pushed EXCEPT !.warnings = Append(@,
                       Warning("missing-dependency", node.id, "Child not found in topic",
                               childRef, node.sourceFile, node.sourceLine))]
             ELSE pushed
       IN  addDeclaredChildren_pushesUnknown(node, j + 1, nodesById, cfg, next)

RECURSIVE addDeclaredChildren(_, _, _, _, _)
addDeclaredChildren(node, j, nodesById, cfg, loop) ==
  IF j > Len(node.children) THEN loop
  ELSE LET childRef  == node.children[j]
           crossRepo == parseCrossRepoDependency(childRef)
           pushed    == [loop EXCEPT !.existingChildren = Append(@, childRef),
                                     !.existingChildrenSet = @ \cup {childRef}]
           next ==
             IF childRef \in loop.existingChildrenSet THEN loop
             ELSE IF crossRepo.isExternal
               THEN IF isValidCrossRepo(crossRepo, cfg) THEN pushed
                    ELSE [pushed EXCEPT !.warnings = Append(@,
                            Warning("missing-dependency", node.id, "Child unknown repository",
                                    childRef, node.sourceFile, node.sourceLine))]
             ELSE IF ~HasNode(nodesById, childRef)
               THEN [loop EXCEPT !.warnings = Append(@,
                       Warning("missing-dependency", node.id, "Child not found in topic",
                               childRef, node.sourceFile, node.sourceLine))]
             ELSE pushed
       IN  addDeclaredChildren(node, j + 1, nodesById, cfg, next)

\* mutant: the list is stored even when it is empty
resolveChildren_storesEmpty(node, nodesById, cfg, st) ==
  IF Len(node.children) = 0 THEN st
  ELSE LET existing == MapGet(st.childrenByDependencyId, node.id)
           loop == addDeclaredChildren(node, 1, nodesById, cfg,
                     [existingChildren    |-> existing,
                      existingChildrenSet |-> Range(existing),
                      warnings            |-> st.warnings])
       IN  [st EXCEPT !.warnings = loop.warnings,
                      !.childrenByDependencyId = MapSet(@, node.id, loop.existingChildren)]

resolveChildren(node, nodesById, cfg, st) ==
  IF Len(node.children) = 0 THEN st
  ELSE LET existing == MapGet(st.childrenByDependencyId, node.id)
           loop == addDeclaredChildren(node, 1, nodesById, cfg,
                     [existingChildren    |-> existing,
                      existingChildrenSet |-> Range(existing),
                      warnings            |-> st.warnings])
       IN  [st EXCEPT !.warnings = loop.warnings,
                      !.childrenByDependencyId =
                         IF Len(loop.existingChildren) > 0
                           THEN MapSet(@, node.id, loop.existingChildren)
                           ELSE @]

RECURSIVE resolveEdges(_, _, _, _)
resolveEdges(nodesById, i, cfg, st) ==
  IF i > Len(nodesById) THEN st
  ELSE resolveEdges(nodesById, i + 1, cfg,
         resolveChildren(nodesById[i], nodesById, cfg,
           resolveDependency(nodesById[i], nodesById, cfg, st)))

\* mutant: the roots stay in the order of the input
sortRootsAndChildren_rootsUnsorted(st) ==
  [st EXCEPT !.childrenByDependencyId = [k \in DOMAIN @ |-> sortByLocaleCompare(@[k])]]

\* steps 3 and 4: sort the roots and every children list
sortRootsAndChildren(st) ==
  [st EXCEPT !.roots = sortByLocaleCompare(@),
             !.childrenByDependencyId = [k \in DOMAIN @ |-> sortByLocaleCompare(@[k])]]

(***************************************************************************)
(* applyAutoNumericLinks.  The key `${prefix}:${numericValue}` is the pair *)
(* of the prefix and the value: the decimal rendering of the value holds   *)
(* no colon, so two keys are equal exactly when both parts are.            *)
(***************************************************************************)
NumericKey(prefix, numericValue) == <<prefix, numericValue>>

KeyOf(id) ==
  LET parsed == parseNumericId(id) IN NumericKey(parsed.prefix, parsed.numericValue)

\* the lookup after the first loop: every key maps to the first id, in the
\* iteration order of nodesById, that parses to it
numericLookup(nodesById) ==
  LET numeric == {i \in DOMAIN nodesById : parseNumericId(nodesById[i].id).matched}
      keys    == {KeyOf(nodesById[i].id) : i \in numeric}
  IN  [key \in keys |->
         nodesById[MinOf({i \in numeric : KeyOf(nodesById[i].id) = key})].id]

\* mutant: a declared dependency is overwritten
autoAssignDependency_overwrites(i, lookup, st) ==
  LET node    == st.nodesById[i]
      id      == node.id
      parsed  == parseNumericId(id)
      prevKey == NumericKey(parsed.prefix, parsed.numericValue - 1)
  IN  IF parsed.numericValue > 1
           /\ prevKey \in DOMAIN lookup /\ lookup[prevKey] # id
        THEN LET prevId == lookup[prevKey]
                 existingChildren == MapGet(st.childrenByDependencyId, prevId)
             IN  [st EXCEPT
                    !.nodesById[i].dependency = prevId,
                    !.roots = RemoveFirst(@, id),
                    !.childrenByDependencyId =
                       IF Includes(existingChildren, id) THEN @
                       ELSE MapSet(@, prevId, sortByLocaleCompare(Append(existingChildren, id)))]
        ELSE st

\* mutant: the dependency is written and the children list is left alone
autoAssignDependency_noEdge(i, lookup, st) ==
  LET node    == st.nodesById[i]
      id      == node.id
      parsed  == parseNumericId(id)
      prevKey == NumericKey(parsed.prefix, parsed.numericValue - 1)
  IN  IF node.dependency = NoString /\ parsed.numericValue > 1
           /\ prevKey \in DOMAIN lookup /\ lookup[prevKey] # id
        THEN [st EXCEPT !.nodesById[i].dependency = lookup[prevKey],
                        !.roots = RemoveFirst(@, id)]
        ELSE st

\* mutant: the node stays in the root list
autoAssignDependency_keepsRoot(i, lookup, st) ==
  LET node    == st.nodesById[i]
      id      == node.id
      parsed  == parseNumericId(id)
      prevKey == NumericKey(parsed.prefix, parsed.numericValue - 1)
  IN  IF node.dependency = NoString /\ parsed.numericValue > 1
           /\ prevKey \in DOMAIN lookup /\ lookup[prevKey] # id
        THEN LET prevId == lookup[prevKey]
                 existingChildren == MapGet(st.childrenByDependencyId, prevId)
             IN  [st EXCEPT
                    !.nodesById[i].dependency = prevId,
                    !.childrenByDependencyId =
                       IF Includes(existingChildren, id) THEN @
                       ELSE MapSet(@, prevId, sortByLocaleCompare(Append(existingChildren, id)))]
        ELSE st

\* lines 79-101: backfill the dependency from {prefix}{n-1}
autoAssignDependency(i, lookup, st) ==
  LET node    == st.nodesById[i]
      id      == node.id
      parsed  == parseNumericId(id)
      prevKey == NumericKey(parsed.prefix, parsed.numericValue - 1)
  IN  IF node.dependency = NoString /\ parsed.numericValue > 1
           /\ prevKey \in DOMAIN lookup /\ lookup[prevKey] # id
        THEN LET prevId == lookup[prevKey]
                 existingChildren == MapGet(st.childrenByDependencyId, prevId)
             IN  [st EXCEPT
                    !.nodesById[i].dependency = prevId,
                    !.roots = RemoveFirst(@, id),
                    !.childrenByDependencyId =
                       IF Includes(existingChildren, id) THEN @
                       ELSE MapSet(@, prevId, sortByLocaleCompare(Append(existingChildren, id)))]
        ELSE st

\* mutant: the node with the value n-1 is added to the children
autoAddChild_linksBack(i, lookup, st) ==
  LET id      == st.nodesById[i].id
      parsed  == parseNumericId(id)
      existingChildren == MapGet(st.childrenByDependencyId, id)
      nextKey == NumericKey(parsed.prefix, parsed.numericValue - 1)
  IN  IF nextKey \in DOMAIN lookup /\ lookup[nextKey] # id
           /\ ~Includes(existingChildren, lookup[nextKey])
           /\ HasNode(st.nodesById, lookup[nextKey])
        THEN [st EXCEPT !.childrenByDependencyId =
                MapSet(@, id, sortByLocaleCompare(Append(existingChildren, lookup[nextKey])))]
        ELSE st

\* mutant: the successor is pushed and the list is left as it stands
autoAddChild_unsorted(i, lookup, st) ==
  LET id      == st.nodesById[i].id
      parsed  == parseNumericId(id)
      existingChildren == MapGet(st.childrenByDependencyId, id)
      nextKey == NumericKey(parsed.prefix, parsed.numericValue + 1)
  IN  IF nextKey \in DOMAIN lookup /\ lookup[nextKey] # id
           /\ ~Includes(existingChildren, lookup[nextKey])
           /\ HasNode(st.nodesById, lookup[nextKey])
           /\ GetNode(st.nodesById, lookup[nextKey]).dependency = NoString
        THEN [st EXCEPT !.childrenByDependencyId =
                MapSet(@, id, Append(existingChildren, lookup[nextKey]))]
        ELSE st

\* mutant: the successor is added whatever its dependency
autoAddChild_ignoresDependency(i, lookup, st) ==
  LET id      == st.nodesById[i].id
      parsed  == parseNumericId(id)
      existingChildren == MapGet(st.childrenByDependencyId, id)
      nextKey == NumericKey(parsed.prefix, parsed.numericValue + 1)
  IN  IF nextKey \in DOMAIN lookup /\ lookup[nextKey] # id
           /\ ~Includes(existingChildren, lookup[nextKey])
           /\ HasNode(st.nodesById, lookup[nextKey])
        THEN [st EXCEPT !.childrenByDependencyId =
                MapSet(@, id, sortByLocaleCompare(Append(existingChildren, lookup[nextKey])))]
        ELSE st

\* lines 103-115: add {prefix}{n+1} to the children
autoAddChild(i, lookup, st) ==
  LET id      == st.nodesById[i].id
      parsed  == parseNumericId(id)
      existingChildren == MapGet(st.childrenByDependencyId, id)
      nextKey == NumericKey(parsed.prefix, parsed.numericValue + 1)
  IN  IF nextKey \in DOMAIN lookup /\ lookup[nextKey] # id
           /\ ~Includes(existingChildren, lookup[nextKey])
           /\ HasNode(st.nodesById, lookup[nextKey])
           /\ GetNode(st.nodesById, lookup[nextKey]).dependency = NoString
        THEN [st EXCEPT !.childrenByDependencyId =
                MapSet(@, id, sortByLocaleCompare(Append(existingChildren, lookup[nextKey])))]
        ELSE st

RECURSIVE linkNodes(_, _, _)
linkNodes(i, lookup, st) ==
  IF i > Len(st.nodesById) THEN st
  ELSE IF ~parseNumericId(st.nodesById[i].id).matched THEN linkNodes(i + 1, lookup, st)
  ELSE linkNodes(i + 1, lookup, autoAddChild(i, lookup, autoAssignDependency(i, lookup, st)))

applyAutoNumericLinks(st) == linkNodes(1, numericLookup(st.nodesById), st)

(***************************************************************************)
(* Cycle detection: detectCycle and the loop over the children of a node.  *)
(* dfs holds visited, recursionStack, cycleNodes, the warnings and the     *)
(* number of calls of detectCycle made so far.                             *)
(***************************************************************************)
RECURSIVE detectCycle(_, _, _)
RECURSIVE visitChildren(_, _, _, _)

\* mutant: a node that was visited before is reported as closing a cycle
detectCycle_visitedIsCycle(nodeId, g, dfs) ==
  LET entered == [dfs EXCEPT !.detectCalls = @ + 1]
  IN  IF nodeId \in entered.recursionStack \/ nodeId \in entered.visited
        THEN [found |-> TRUE, dfs |-> entered]
      ELSE LET inside == [entered EXCEPT !.visited = @ \cup {nodeId},
                                         !.recursionStack = @ \cup {nodeId}]
               after  == visitChildren(MapGet(g.childrenByDependencyId, nodeId), 1, g, inside)
           IN  [found |-> FALSE, dfs |-> [after EXCEPT !.recursionStack = @ \ {nodeId}]]

detectCycle(nodeId, g, dfs) ==
  LET entered == [dfs EXCEPT !.detectCalls = @ + 1]
  IN  IF nodeId \in entered.recursionStack THEN [found |-> TRUE, dfs |-> entered]
      ELSE IF nodeId \in entered.visited THEN [found |-> FALSE, dfs |-> entered]
      ELSE LET inside == [entered EXCEPT !.visited = @ \cup {nodeId},
                                         !.recursionStack = @ \cup {nodeId}]
               after  == visitChildren(MapGet(g.childrenByDependencyId, nodeId), 1, g, inside)
           IN  [found |-> FALSE, dfs |-> [after EXCEPT !.recursionStack = @ \ {nodeId}]]

\* mutant: every edge that closes a cycle is warned about
RECURSIVE visitChildren_noCycleNodes(_, _, _, _)
visitChildren_noCycleNodes(children, j, g, dfs) ==
  IF j > Len(children) THEN dfs
  ELSE LET childId == children[j]
           r       == detectCycle(childId, g, dfs)
           flagged ==
             IF r.found
               THEN [r.dfs EXCEPT
                       !.cycleNodes = @ \cup {childId},
                       !.warnings = Append(@,
                          Warning("cycle-detected", childId, "Cycle detected", childId,
                                  IF HasNode(g.nodesById, childId)
                                    THEN GetNode(g.nodesById, childId).sourceFile ELSE NoString,
                                  IF HasNode(g.nodesById, childId)
                                    THEN GetNode(g.nodesById, childId).sourceLine ELSE 0))]
               ELSE r.dfs
       IN  visitChildren_noCycleNodes(children, j + 1, g, flagged)

visitChildren(children, j, g, dfs) ==
  IF j > Len(children) THEN dfs
  ELSE LET childId == children[j]
           r       == detectCycle(childId, g, dfs)
           flagged ==
             IF r.found /\ childId \notin r.dfs.cycleNodes
               THEN [r.dfs EXCEPT
                       !.cycleNodes = @ \cup {childId},
                       !.warnings = Append(@,
                          Warning("cycle-detected", childId, "Cycle detected", childId,
                                  IF HasNode(g.nodesById, childId)
                                    THEN GetNode(g.nodesById, childId).sourceFile ELSE NoString,
                                  IF HasNode(g.nodesById, childId)
                                    THEN GetNode(g.nodesById, childId).sourceLine ELSE 0))]
               ELSE r.dfs
       IN  visitChildren(children, j + 1, g, flagged)

RECURSIVE detectFromRoots(_, _, _)
detectFromRoots(k, g, dfs) ==
  IF k > Len(g.roots) THEN dfs
  ELSE detectFromRoots(k + 1, g, detectCycle(g.roots[k], g, dfs).dfs)

(***************************************************************************)
(* buildGraph.  The result holds the returned graph (topic, nodesById,     *)
(* childrenByDependencyId, roots, warnings) and, for the statements about  *)
(* the auto-linker and the traversal, the children mapping and roots as    *)
(* they stood at line 240 and the number of detectCycle calls.  The parser  *)
(* errors attached at line 285 take no part in the graph and are left out. *)
(***************************************************************************)
buildGraph(nodes, t, cfg) ==
  LET filtered  == filterByTopic(nodes, t)
      populated == populateNodesById(filtered, 1, [nodesById |-> <<>>, warnings |-> <<>>])
      edges     == resolveEdges(populated.nodesById, 1, cfg,
                     [nodesById |-> populated.nodesById,
                      childrenByDependencyId |-> EmptyMap,
                      roots |-> <<>>,
                      warnings |-> populated.warnings])
      sorted    == sortRootsAndChildren(edges)
      linked    == applyAutoNumericLinks(sorted)
      dfs       == detectFromRoots(1, linked,
                     [visited |-> {}, recursionStack |-> {}, cycleNodes |-> {},
                      warnings |-> linked.warnings, detectCalls |-> 0])
  IN  [topic |-> t,
       nodesById |-> linked.nodesById,
       childrenByDependencyId |-> linked.childrenByDependencyId,
       roots |-> linked.roots,
       warnings |-> dfs.warnings,
       declared |-> populated.nodesById,
       explicitChildren |-> sorted.childrenByDependencyId,
       explicitRoots |-> sorted.roots,
       detectCalls |-> dfs.detectCalls]

getChildren(graph, nodeId) == MapGet(graph.childrenByDependencyId, nodeId)

hasChildren(graph, nodeId) == Len(getChildren(graph, nodeId)) > 0

(***************************************************************************)
(* webviewProvider.ts, buildBreadcrumbs: the depth-first walk from every   *)
(* root; the walk state is the visited set and the breadcrumbs so far.     *)
(***************************************************************************)
RECURSIVE traverse(_, _, _, _)
RECURSIVE traverseChildren(_, _, _, _, _)

traverse(nodeId, graph, currentNodeId, walk) ==
  IF nodeId \in walk.visited THEN walk
  ELSE LET seen == [walk EXCEPT !.visited = @ \cup {nodeId}]
       IN  IF HasNode(graph.nodesById, nodeId)
             THEN traverseChildren(getChildren(graph, nodeId), 1, graph, currentNodeId,
                    [seen EXCEPT !.breadcrumbs =
                       Append(@, [id |-> nodeId, isCurrent |-> nodeId = currentNodeId])])
             ELSE seen

traverseChildren(children, j, graph, currentNodeId, walk) ==
  IF j > Len(children) THEN walk
  ELSE traverseChildren(children, j + 1, graph, currentNodeId,
         traverse(children[j], graph, currentNodeId, walk))

RECURSIVE traverseRoots(_, _, _, _)
traverseRoots(k, graph, currentNodeId, walk) ==
  IF k > Len(graph.roots) THEN walk
  ELSE traverseRoots(k + 1, graph, currentNodeId,
         traverse(graph.roots[k], graph, currentNodeId, walk))

buildBreadcrumbs(graph, currentNodeId) ==
  traverseRoots(1, graph, currentNodeId, [visited |-> {}, breadcrumbs |-> <<>>]).breadcrumbs

(***************************************************************************)
(* Inputs.  The ids, dependencies and child references the records are     *)
(* drawn from.                                                             *)
(***************************************************************************)
MaxRecords == 3

MaxCalls == 2

Id_A == <<"A">>

Id_B == <<"B">>

Id_C == <<"C">>

Id_S0 == <<"S", "-", "0">>

Id_S1 == <<"S", "-", "1">>

Id_S001 == <<"S", "-", "0", "0", "1">>

Id_S2 == <<"S", "-", "2">>

Id_S02 == <<"S", "-", "0", "2">>

Id_S3 == <<"S", "-", "3">>

Id_S03 == <<"S", "-", "0", "3">>

Id_11 == <<"1", "1">>

Id_12 == <<"1", "2">>

Ref_GHOST == <<"G", "H", "O", "S", "T">>

Ref_other_N == <<"o", "t", "h", "e", "r", "@", "N">>

Ref_unknown_N == <<"u", "n", "k", "@", "N">>

Ref_toString_N == Str_toString \o <<"@", "N">>

Ref_at_N == <<"@", "N">>

Ref_N_at == <<"N", "@">>

Repo_other == <<"o", "t", "h", "e", "r">>

Repo_unk == <<"u", "n", "k">>

Topics == {"T", "U"}

Shapes(ids, topics, dependencies, childLists) ==
  [id : ids, topic : topics, dependency : dependencies, children : childLists]

\* ids with a numeric suffix, no declared edge
PoolNumeric ==
  Shapes({Id_S0, Id_S1, Id_S001, Id_S2, Id_S02, Id_S3, Id_S03, Id_11, Id_12},
         {"T"}, {NoString}, {<<>>})

\* declared dependencies and children among local nodes: self-loops, cycles
\* with and without a root that reaches them, a child declared twice
PoolLocal ==
  Shapes({Id_A, Id_B, Id_C}, {"T"}, {NoString, Id_A, Id_B}, {<<>>})
    \cup Shapes({Id_A, Id_C}, {"T"}, {NoString}, {<<Id_C, Id_B, Id_C>>})
    \cup Shapes({Id_B}, {"T"}, {Id_C}, {<<>>})

\* declared edges between ids with a numeric suffix
PoolMixed ==
  Shapes({Id_S1}, {"T"}, {NoString, Id_S3}, {<<>>, <<Id_S3>>})
    \cup Shapes({Id_S2}, {"T"}, {NoString, Id_S1, Id_S3, Ref_GHOST}, {<<>>})
    \cup Shapes({Id_S3}, {"T"}, {NoString, Id_S1}, {<<>>})
    \cup Shapes({Id_S3}, {"T"}, {NoString}, {<<Id_S1>>})

\* dependencies that match no local node, well-formed cross-repo or not
PoolCross ==
  Shapes({Id_A}, {"T"},
         {NoString, Id_B, Ref_GHOST, Ref_other_N, Ref_unknown_N, Ref_toString_N,
          Ref_at_N, Ref_N_at},
         {<<>>})
    \cup Shapes({Id_B}, {"T"}, {NoString, Ref_other_N}, {<<>>})

\* records of two topics, duplicate ids
PoolTopics ==
  Shapes({Id_A, Id_S1, Id_S2}, Topics, {NoString}, {<<>>})
    \cup Shapes({Id_S2}, Topics, {Id_A}, {<<>>})

\* declared children: known and unknown local ids, an unknown id declared
\* twice, cross-repo references recognized or not, references with @ at an end
PoolChildren ==
  Shapes({Id_A}, {"T"}, {NoString},
         {<<Ref_GHOST>>, <<Ref_GHOST, Id_B, Ref_GHOST>>, <<Ref_other_N>>,
          <<Ref_unknown_N, Id_B>>, <<Ref_at_N>>, <<Ref_N_at, Ref_other_N>>,
          <<Ref_toString_N>>})
    \cup Shapes({Id_B}, {"T"}, {NoString, Id_A}, {<<>>})
    \cup Shapes({Id_B}, {"T"}, {NoString}, {<<Id_A>>})

Configs ==
  {[repos |-> NoRepos], [repos |-> Repos({Repo_other})], [repos |-> Repos({Repo_other, Repo_unk})]}

Families ==
  {[pool |-> PoolNumeric, configs |-> {[repos |-> NoRepos]}],
   [pool |-> PoolLocal,   configs |-> {[repos |-> NoRepos]}],
   [pool |-> PoolMixed,   configs |-> {[repos |-> NoRepos]}],
   [pool |-> PoolCross,   configs |-> {[repos |-> NoRepos], [repos |-> Repos({Repo_other})]}],
   [pool |-> PoolTopics,  configs |-> {[repos |-> NoRepos]}],
   [pool |-> PoolChildren, configs |-> {[repos |-> NoRepos], [repos |-> Repos({Repo_other})]}]}

\* the parser gives every record its own source location; the line is the
\* position of the record in the list
MakeRecords(shapes) ==
  [i \in DOMAIN shapes |->
     [topic |-> shapes[i].topic, id |-> shapes[i].id,
      dependency |-> shapes[i].dependency, children |-> shapes[i].children,
      sourceFile |-> "f", sourceLine |-> i]]

\* no parsing call is under way
NoResult == [none |-> TRUE]

ParseIdle == callArg = <<>> /\ callResult = NoResult

\* extension.ts:210-211 before activate runs: pendingNavigation is undefined
NoNavigation == [none |-> TRUE]

NavigationIdle ==
  /\ activatePc = "not-activated"
  /\ isGitRepo = FALSE
  /\ pendingNavigation = NoNavigation
  /\ indexingComplete = FALSE
  /\ receivedRequests = {}
  /\ processedRequests = {}

\* no watched file, nothing indexed, no call in flight
NoDocument == [exists |-> FALSE, content |-> <<>>]

\* index.nodesByFile has no entry for the file
NoNodes == [has |-> FALSE, nodes |-> <<>>]

IndexerIdle ==
  /\ document = NoDocument
  /\ nodesByFile = NoNodes
  /\ indexFileCalls = <<>>
  /\ deleteEvent = "none"

NoGraph == [topic |-> "none"]

NoTopic == "none"

Init ==
  /\ \E fam \in Families :
       /\ \E n \in 0..MaxRecords : \E shapes \in [1..n -> fam.pool] :
            records = MakeRecords(shapes)
       /\ config \in fam.configs
  /\ topic = NoTopic
  /\ currentGraph = NoGraph
  /\ prevGraph = NoGraph
  /\ prevTopic = NoTopic
  /\ lastInput = <<>>
  /\ calls = 0
  /\ ParseIdle
  /\ NavigationIdle
  /\ IndexerIdle

\* the retained records are the objects of the input list: a dependency the
\* auto-linker wrote is written on the record of the list
writeBack(nodes, graph) ==
  [i \in DOMAIN nodes |->
     IF \E k \in DOMAIN graph.nodesById : graph.nodesById[k].sourceLine = nodes[i].sourceLine
       THEN graph.nodesById[CHOOSE k \in DOMAIN graph.nodesById :
                              graph.nodesById[k].sourceLine = nodes[i].sourceLine]
       ELSE nodes[i]]

\* the topics a caller asks for: the topics of the indexed records (pickTopic
\* offers indexer.getTopics()), and topic "T" whatever the records are
RequestedTopics == {"T"} \cup {records[i].topic : i \in DOMAIN records}

\* a caller builds the graph of topic t from the indexed records; lastInput
\* keeps the records as they were passed to the call
BuildGraph(t) ==
  /\ calls < MaxCalls
  /\ t \in RequestedTopics
  /\ lastInput' = records
  /\ LET graph == buildGraph(records, t, config)
     IN  /\ currentGraph' = graph
         /\ records' = writeBack(records, graph)
  /\ topic' = t
  /\ prevGraph' = currentGraph
  /\ prevTopic' = topic
  /\ calls' = calls + 1
  /\ UNCHANGED <<config, parseVars, navigationVars, indexerVars>>

Next == \E t \in Topics : BuildGraph(t)

Spec == Init /\ [][Next]_vars

(***************************************************************************)
(* Vocabulary of the properties                                            *)
(***************************************************************************)
Built == calls >= 1

NodeIds(graph) == {graph.nodesById[i].id : i \in DOMAIN graph.nodesById}

\* the node map as the ids in map order, each with the record it resolves to
NodeMap(graph) ==
  [i \in DOMAIN graph.nodesById |->
     [id |-> graph.nodesById[i].id, sourceLine |-> graph.nodesById[i].sourceLine]]

GraphCore(graph) ==
  [nodesById |-> NodeMap(graph), roots |-> graph.roots,
   childrenByDependencyId |-> graph.childrenByDependencyId]

WarningsOfType(graph, type) == SelectSeq(graph.warnings, LAMBDA w : w.type = type)

NoDuplicates(s) == \A i, j \in DOMAIN s : s[i] = s[j] => i = j

LocalChildren(graph, id) == Range(getChildren(graph, id)) \cap NodeIds(graph)

RECURSIVE ReachableFrom(_, _, _)
ReachableFrom(graph, frontier, seen) ==
  IF frontier \subseteq seen THEN seen
  ELSE ReachableFrom(graph,
         UNION {LocalChildren(graph, id) : id \in frontier \ seen},
         seen \cup frontier)

OnCycle(graph, id) == id \in ReachableFrom(graph, LocalChildren(graph, id), {})

HasLocalCycle(graph) == \E id \in NodeIds(graph) : OnCycle(graph, id)

EdgeCount(graph) ==
  LET keys == DOMAIN graph.childrenByDependencyId
      RECURSIVE Sum(_)
      Sum(S) == IF S = {} THEN 0
                ELSE LET k == CHOOSE x \in S : TRUE
                     IN  Len(graph.childrenByDependencyId[k]) + Sum(S \ {k})
  IN  Sum(keys)

TopicRecords == {i \in DOMAIN records : records[i].topic = topic}

(***************************************************************************)
(* C1.  Two consecutive buildGraph calls on the same list of records, with *)
(* the same topic and config, return identical node maps, root lists and   *)
(* children lists.                                                         *)
(***************************************************************************)
C1_Idempotent ==
  (calls = 2 /\ topic = prevTopic) => GraphCore(currentGraph) = GraphCore(prevGraph)

(***************************************************************************)
(* C2.  No child id occurs twice in the children list of one parent.       *)
(***************************************************************************)
C2_ChildrenDeduplicated ==
  Built => \A parent \in DOMAIN currentGraph.childrenByDependencyId :
             NoDuplicates(currentGraph.childrenByDependencyId[parent])

(***************************************************************************)
(* C3.  If the children mapping of the returned graph has a directed cycle *)
(* among local nodes, the warnings hold a cycle-detected warning.          *)
(***************************************************************************)
C3_CycleIsReported ==
  (Built /\ HasLocalCycle(currentGraph)) =>
     Len(WarningsOfType(currentGraph, "cycle-detected")) >= 1

(***************************************************************************)
(* C4.  buildGraph returns a graph for every input: the traversal makes at *)
(* most one detectCycle call per root and per edge, and when no record has *)
(* the requested topic the node map, the roots, the children mapping and   *)
(* the warnings are empty.                                                 *)
(***************************************************************************)
C4_AlwaysReturns ==
  Built =>
    /\ currentGraph.topic = topic
    /\ currentGraph.detectCalls <= Len(currentGraph.roots) + EdgeCount(currentGraph)
    /\ TopicRecords = {} =>
         /\ currentGraph.nodesById = <<>>
         /\ currentGraph.roots = <<>>
         /\ DOMAIN currentGraph.childrenByDependencyId = {}
         /\ currentGraph.warnings = <<>>

C4_Witness ==
  /\ Built
  /\ HasLocalCycle(currentGraph)
  /\ Len(WarningsOfType(currentGraph, "duplicate-id")) >= 1
  /\ Len(WarningsOfType(currentGraph, "cycle-detected")) >= 1

(***************************************************************************)
(* C5.  An id that several records of the topic carry resolves to the      *)
(* first of them; every later one has exactly one duplicate-id warning,    *)
(* with its source file and line; the duplicate-id warnings are as many as *)
(* the records of the topic minus the distinct ids.                        *)
(***************************************************************************)
FirstWithId(id) == MinOf({i \in TopicRecords : records[i].id = id})

C5_FirstWinsOnDuplicates ==
  Built =>
    /\ \A i \in TopicRecords :
         /\ HasNode(currentGraph.nodesById, records[i].id)
         /\ GetNode(currentGraph.nodesById, records[i].id).sourceLine
              = records[FirstWithId(records[i].id)].sourceLine
         /\ Cardinality({k \in DOMAIN currentGraph.warnings :
                           /\ currentGraph.warnings[k].type = "duplicate-id"
                           /\ currentGraph.warnings[k].nodeId = records[i].id
                           /\ currentGraph.warnings[k].sourceFile = records[i].sourceFile
                           /\ currentGraph.warnings[k].sourceLine = records[i].sourceLine})
              = IF i = FirstWithId(records[i].id) THEN 0 ELSE 1
    /\ Len(WarningsOfType(currentGraph, "duplicate-id"))
         = Cardinality(TopicRecords) - Cardinality({records[i].id : i \in TopicRecords})

C5_Witness ==
  /\ Built
  /\ Len(WarningsOfType(currentGraph, "duplicate-id")) = 2
  /\ Len(currentGraph.nodesById) = 1

(***************************************************************************)
(* C6.  A retained node whose declared dependency matches no local node is *)
(* in the root list, and has a missing-dependency warning for that         *)
(* dependency exactly when the dependency is not a well-formed             *)
(* cross-boundary reference with a recognized external name.               *)
(***************************************************************************)
\* <name>@<id> with an "@" that is neither the first nor the last character
IsCrossBoundary(ref) == \E i \in 2..(Len(ref) - 1) : ref[i] = "@"

ExternalName(ref) == SubSeq(ref, 1, IndexOfAt(ref))

RecognizedNames == IF config.repos.defined THEN config.repos.keys ELSE {}

IsRecognizedCrossBoundary(ref) ==
  IsCrossBoundary(ref) /\ ExternalName(ref) \in RecognizedNames

HasDependencyWarning(graph, node) ==
  \E k \in DOMAIN graph.warnings :
    /\ graph.warnings[k].type = "missing-dependency"
    /\ graph.warnings[k].nodeId = node.id
    /\ graph.warnings[k].message = [template |-> "Dependency not found", ref |-> node.dependency]

Dangling(graph) ==
  {i \in DOMAIN graph.declared :
     /\ graph.declared[i].dependency # NoString
     /\ ~HasNode(graph.declared, graph.declared[i].dependency)}

C6_DanglingDependency ==
  Built => \A i \in Dangling(currentGraph) :
             /\ Includes(currentGraph.roots, currentGraph.declared[i].id)
             /\ HasDependencyWarning(currentGraph, currentGraph.declared[i])
                  <=> ~IsRecognizedCrossBoundary(currentGraph.declared[i].dependency)

(***************************************************************************)
(* C7.  The recognized repository names change the warnings only: the      *)
(* build of the same records and topic under any other config has the same *)
(* node map, root list and children mapping.                               *)
(***************************************************************************)
C7_ReposChangeWarningsOnly ==
  Built => \A cfg \in Configs \ {config} :
             GraphCore(currentGraph) = GraphCore(buildGraph(lastInput, topic, cfg))

C7_Witness ==
  /\ Built
  /\ config.repos.defined
  /\ \E i \in DOMAIN currentGraph.nodesById :
       /\ currentGraph.nodesById[i].dependency = Ref_other_N
       /\ Includes(currentGraph.roots, currentGraph.nodesById[i].id)
  /\ \E i \in DOMAIN currentGraph.nodesById :
       /\ currentGraph.nodesById[i].dependency = Ref_unknown_N
       /\ HasDependencyWarning(currentGraph, currentGraph.nodesById[i])
  /\ Len(currentGraph.warnings) = 1

(***************************************************************************)
(* C8.  Among records with unique ids and no declared dependency, a node c *)
(* of value v > 1 and a node p of the same prefix and value v - 1: c is in *)
(* getChildren(p), c is not a root and the dependency of c is p.           *)
(***************************************************************************)
UniqueIdsNoDependency(graph) ==
  /\ Len(graph.declared) = Cardinality(TopicRecords)
  /\ \A i \in DOMAIN graph.declared : graph.declared[i].dependency = NoString

IsPredecessor(p, c) ==
  /\ parseNumericId(p).matched
  /\ parseNumericId(c).matched
  /\ parseNumericId(p).prefix = parseNumericId(c).prefix
  /\ parseNumericId(c).numericValue > 1
  /\ parseNumericId(p).numericValue = parseNumericId(c).numericValue - 1

LinkedTo(graph, p, c) ==
  /\ Includes(getChildren(graph, p), c)
  /\ ~Includes(graph.roots, c)
  /\ GetNode(graph.nodesById, c).dependency = p

C8_Original ==
  (Built /\ UniqueIdsNoDependency(currentGraph)) =>
     \A p, c \in NodeIds(currentGraph) :
        IsPredecessor(p, c) => LinkedTo(currentGraph, p, c)

\* p is the first node, in input order, of its prefix and value
FirstOfItsValue(graph, p) ==
  \A i \in 1..(NodeIndex(graph.nodesById, p) - 1) :
     ~(/\ parseNumericId(graph.nodesById[i].id).matched
       /\ KeyOf(graph.nodesById[i].id) = KeyOf(p))

(***************************************************************************)
(* C8, amended.  The same for the node p that is the first in input order  *)
(* among the nodes of its prefix and value; the chain S-001, S-2, S-03 has *)
(* S-001 as its only root.                                                 *)
(***************************************************************************)
C8_AutoLinkToFirstPredecessor ==
  (Built /\ UniqueIdsNoDependency(currentGraph)) =>
     /\ \A p, c \in NodeIds(currentGraph) :
          (IsPredecessor(p, c) /\ FirstOfItsValue(currentGraph, p))
             => LinkedTo(currentGraph, p, c)
     /\ NodeIds(currentGraph) = {Id_S001, Id_S2, Id_S03} => currentGraph.roots = <<Id_S001>>

C8_Witness ==
  /\ Built
  /\ UniqueIdsNoDependency(currentGraph)
  /\ NodeIds(currentGraph) = {Id_S02, Id_S2, Id_S3}
  /\ LinkedTo(currentGraph, currentGraph.nodesById[1].id, Id_S3)

(***************************************************************************)
(* C9.  A node that declares a dependency keeps it, and the auto-linker    *)
(* adds no edge to it: it is a child only of the parents it was a child of *)
(* before the auto-linker ran.                                             *)
(***************************************************************************)
C9_ExplicitDependencyPrecedence ==
  Built => \A i \in DOMAIN currentGraph.declared :
             currentGraph.declared[i].dependency # NoString =>
               /\ currentGraph.nodesById[i].dependency = currentGraph.declared[i].dependency
               /\ \A parent \in DOMAIN currentGraph.childrenByDependencyId :
                    Includes(currentGraph.childrenByDependencyId[parent],
                             currentGraph.declared[i].id)
                      => Includes(MapGet(currentGraph.explicitChildren, parent),
                                  currentGraph.declared[i].id)

C9_Witness ==
  /\ calls = 1
  /\ NodeIds(currentGraph) = {Id_S1, Id_S2, Id_S3}
  /\ GetNode(currentGraph.declared, Id_S3).dependency = Id_S1
  /\ GetNode(currentGraph.declared, Id_S2).dependency = NoString
  /\ ~Includes(getChildren(currentGraph, Id_S2), Id_S3)
  /\ Includes(getChildren(currentGraph, Id_S1), Id_S2)

(***************************************************************************)
(* C10.  A node that has children before the auto-linker runs does not     *)
(* gain its numeric successor as a child.                                  *)
(***************************************************************************)
IsSuccessor(p, c) ==
  /\ parseNumericId(p).matched
  /\ parseNumericId(c).matched
  /\ parseNumericId(p).prefix = parseNumericId(c).prefix
  /\ parseNumericId(c).numericValue = parseNumericId(p).numericValue + 1

C10_ExplicitChildrenOverride ==
  Built => \A p \in NodeIds(currentGraph) :
             Len(MapGet(currentGraph.explicitChildren, p)) > 0 =>
               \A c \in Range(getChildren(currentGraph, p)) :
                  IsSuccessor(p, c) => Includes(currentGraph.explicitChildren[p], c)

(***************************************************************************)
(* C11.  The root list and every list of the children mapping of the       *)
(* returned graph are in ascending order under localeCompare, also when    *)
(* the auto-linker has removed roots and inserted children.                *)
(***************************************************************************)
IsSorted(s) == \A i \in 1..(Len(s) - 1) : localeCompare(s[i], s[i + 1]) <= 0

C11_Sorted ==
  Built =>
    /\ IsSorted(currentGraph.roots)
    /\ \A parent \in DOMAIN currentGraph.childrenByDependencyId :
         IsSorted(currentGraph.childrenByDependencyId[parent])

\* S-1 declares the child S-3 and gains S-2 in front of it; S-2 and S-3 leave the roots
C11_Witness ==
  /\ calls = 1
  /\ MapGet(currentGraph.explicitChildren, Id_S1) = <<Id_S3>>
  /\ getChildren(currentGraph, Id_S1) = <<Id_S2, Id_S3>>
  /\ currentGraph.explicitRoots = <<Id_S1, Id_S2, Id_S3>>
  /\ currentGraph.roots = <<Id_S1>>

(***************************************************************************)
(* C12.  A node id that is in the root list is in the children list of no  *)
(* local node, unless the warnings hold a cycle-detected warning.          *)
(***************************************************************************)
IsLocalChild(graph, id) == \E p \in NodeIds(graph) : Includes(getChildren(graph, p), id)

C12_RootOrChild ==
  Built =>
    \/ Len(WarningsOfType(currentGraph, "cycle-detected")) >= 1
    \/ \A k \in DOMAIN currentGraph.roots : ~IsLocalChild(currentGraph, currentGraph.roots[k])

(***************************************************************************)
(* C13.  The root list has no duplicates, and its ids are exactly the ids  *)
(* of the retained nodes whose dependency, as it stands after the build,   *)
(* is empty or is the id of no local node.                                 *)
(***************************************************************************)
IsRootByDependency(graph, node) ==
  node.dependency = NoString \/ ~HasNode(graph.nodesById, node.dependency)

C13_RootsAreTheUnanchored ==
  Built =>
    /\ NoDuplicates(currentGraph.roots)
    /\ Range(currentGraph.roots) =
         {currentGraph.nodesById[i].id : i \in
            {k \in DOMAIN currentGraph.nodesById :
               IsRootByDependency(currentGraph, currentGraph.nodesById[k])}}

\* a root without dependency, a root with a dangling one, and a node the auto-linker anchored
C13_Witness ==
  /\ calls = 1
  /\ NodeIds(currentGraph) = {Id_S1, Id_S2, Id_S3}
  /\ currentGraph.roots = <<Id_S1, Id_S2>>
  /\ GetNode(currentGraph.nodesById, Id_S2).dependency = Ref_GHOST
  /\ GetNode(currentGraph.declared, Id_S3).dependency = NoString
  /\ GetNode(currentGraph.nodesById, Id_S3).dependency = Id_S2

(***************************************************************************)
(* C14.  Every key of the children mapping of the returned graph is a key  *)
(* of its node map.                                                        *)
(***************************************************************************)
C14_ChildrenKeysAreNodes ==
  Built => DOMAIN currentGraph.childrenByDependencyId \subseteq NodeIds(currentGraph)

\* A depends on B, B depends on a reference that matches no node
C14_Witness ==
  /\ calls = 1
  /\ DOMAIN currentGraph.childrenByDependencyId = {Id_B}
  /\ \E i \in Dangling(currentGraph) : currentGraph.declared[i].id = Id_B

(***************************************************************************)
(* C15.  When no retained record declares a dependency or children, every  *)
(* edge p -> c of the children mapping is matched by the dependency of c:  *)
(* after the build the dependency of c is p.  This includes the pair of    *)
(* the values 0 and 1 and ids that share one prefix and value.             *)
(***************************************************************************)
NoDeclaredEdges(graph) ==
  \A i \in DOMAIN graph.declared :
     graph.declared[i].dependency = NoString /\ graph.declared[i].children = <<>>

C15_AutoLinksBidirectional ==
  (Built /\ NoDeclaredEdges(currentGraph)) =>
     \A p \in DOMAIN currentGraph.childrenByDependencyId :
        \A c \in Range(currentGraph.childrenByDependencyId[p]) :
           GetNode(currentGraph.nodesById, c).dependency = p

(***************************************************************************)
(* C16.  buildGraph changes the records of the input list in one way only: *)
(* the dependency of a retained record of the requested topic that had no  *)
(* dependency is set to the id of a local node.  Every other field, every  *)
(* record with a dependency, every discarded duplicate and every record of *)
(* another topic is as it was passed in.                                   *)
(***************************************************************************)
IsRetained(graph, node) ==
  \E k \in DOMAIN graph.nodesById : graph.nodesById[k].sourceLine = node.sourceLine

C16_OnlyDependencyBackfilled ==
  Built =>
    /\ Len(records) = Len(lastInput)
    /\ \A i \in DOMAIN records :
         /\ [records[i] EXCEPT !.dependency = lastInput[i].dependency] = lastInput[i]
         /\ records[i].dependency # lastInput[i].dependency =>
              /\ lastInput[i].dependency = NoString
              /\ lastInput[i].topic = topic
              /\ IsRetained(currentGraph, lastInput[i])
              /\ HasNode(currentGraph.nodesById, records[i].dependency)

\* one record is backfilled next to a record of the same id that is not retained
C16_Witness ==
  /\ calls = 1
  /\ \E i, j \in DOMAIN records :
       /\ lastInput[i].dependency = NoString
       /\ records[i].dependency # NoString
       /\ j # i
       /\ lastInput[j].id = lastInput[i].id
       /\ ~IsRetained(currentGraph, lastInput[j])

(***************************************************************************)
(* C17.  The graph returned for a topic, warnings included, is the graph   *)
(* returned when records of other topics are removed or changed; every     *)
(* node of the graph has the requested topic, so the auto-linker links no  *)
(* ids across topics.                                                      *)
(***************************************************************************)
ReturnedGraph(graph) ==
  [topic |-> graph.topic, nodesById |-> graph.nodesById,
   childrenByDependencyId |-> graph.childrenByDependencyId,
   roots |-> graph.roots, warnings |-> graph.warnings]

OtherTopicRecords(nodes, t) == {i \in DOMAIN nodes : nodes[i].topic # t}

DropRecords(nodes, dropped) ==
  SelectSeq(nodes, LAMBDA n : n.sourceLine \notin dropped)

ChangedRecord(node, shape) ==
  [node EXCEPT !.id = shape.id, !.topic = shape.topic,
               !.dependency = shape.dependency, !.children = shape.children]

C17_TopicIsolation ==
  Built =>
    /\ \A i \in DOMAIN currentGraph.nodesById : currentGraph.nodesById[i].topic = topic
    /\ \A dropped \in SUBSET OtherTopicRecords(lastInput, topic) :
         ReturnedGraph(buildGraph(DropRecords(lastInput, dropped), topic, config))
           = ReturnedGraph(currentGraph)
    /\ \A i \in OtherTopicRecords(lastInput, topic) :
         \A shape \in {sh \in PoolTopics : sh.topic # topic} :
            ReturnedGraph(buildGraph([lastInput EXCEPT ![i] = ChangedRecord(@, shape)],
                                     topic, config))
              = ReturnedGraph(currentGraph)

\* S-1 of the other topic comes before S-2 of the requested one, which stays a root
C17_Witness ==
  /\ calls = 1
  /\ \E i, j \in DOMAIN lastInput :
       /\ lastInput[i].topic # topic
       /\ lastInput[i].id = Id_S1
       /\ lastInput[j].topic = topic
       /\ lastInput[j].id = Id_S2
       /\ lastInput[j].dependency = NoString
  /\ \A i \in DOMAIN lastInput : lastInput[i].topic = topic => lastInput[i].id # Id_S1
  /\ currentGraph.roots = <<Id_S2>>

(***************************************************************************)
(* C18.  getChildren gives the list stored for a known id and the empty    *)
(* list for any other id; hasChildren is true exactly of the ids that are  *)
(* keys of the children mapping; no key of the mapping holds an empty list. *)
(***************************************************************************)
AskedIds(graph) == NodeIds(graph) \cup {Ref_GHOST, Ref_other_N, NoString}

C18_ChildrenAccessors ==
  Built =>
    /\ \A id \in AskedIds(currentGraph) :
         /\ id \in DOMAIN currentGraph.childrenByDependencyId =>
              getChildren(currentGraph, id) = currentGraph.childrenByDependencyId[id]
         /\ id \notin DOMAIN currentGraph.childrenByDependencyId =>
              getChildren(currentGraph, id) = <<>>
         /\ hasChildren(currentGraph, id) <=> id \in DOMAIN currentGraph.childrenByDependencyId
    /\ \A parent \in DOMAIN currentGraph.childrenByDependencyId :
         Len(currentGraph.childrenByDependencyId[parent]) > 0

\* a node whose declared children all match no node, next to a node with a child
C18_Witness ==
  /\ calls = 1
  /\ \E i \in DOMAIN currentGraph.nodesById :
       /\ Len(currentGraph.nodesById[i].children) > 0
       /\ ~hasChildren(currentGraph, currentGraph.nodesById[i].id)
  /\ \E id \in NodeIds(currentGraph) : hasChildren(currentGraph, id)

(***************************************************************************)
(* C19.  Every retained node whose dependency, as it stands after the      *)
(* build, is the id of a local node p is in getChildren(p).                *)
(***************************************************************************)
C19_DependencyMirrored ==
  Built =>
    \A i \in DOMAIN currentGraph.nodesById :
       LET node == currentGraph.nodesById[i]
       IN  (node.dependency # NoString /\ HasNode(currentGraph.nodesById, node.dependency))
             => Includes(getChildren(currentGraph, node.dependency), node.id)

\* S-2 comes before S-1 in the list and is backfilled before S-1 is visited
C19_Witness ==
  /\ calls = 1
  /\ Len(currentGraph.nodesById) = 2
  /\ currentGraph.nodesById[1].id = Id_S2
  /\ currentGraph.nodesById[2].id = Id_S1
  /\ currentGraph.declared[1].dependency = NoString
  /\ currentGraph.nodesById[1].dependency = Id_S1
  /\ getChildren(currentGraph, Id_S1) = <<Id_S2>>

(***************************************************************************)
(* C20.  Every element of every children list of the returned graph is the *)
(* id of a node of the node map or a cross-boundary reference.  For every  *)
(* retained node, an entry of its declared children that is not            *)
(* cross-boundary and is the id of no local node is not in its children    *)
(* list and has one missing-dependency warning, with the declaring node as *)
(* nodeId, for each time it is declared; an entry that is the id of a      *)
(* local node is in the children list.                                     *)
(***************************************************************************)
ChildNotFoundWarnings(graph, node, ref) ==
  {k \in DOMAIN graph.warnings :
     /\ graph.warnings[k].type = "missing-dependency"
     /\ graph.warnings[k].nodeId = node.id
     /\ graph.warnings[k].message = [template |-> "Child not found in topic", ref |-> ref]}

Occurrences(s, x) == {j \in DOMAIN s : s[j] = x}

C20_ChildReferences ==
  Built =>
    /\ \A parent \in DOMAIN currentGraph.childrenByDependencyId :
         \A c \in Range(currentGraph.childrenByDependencyId[parent]) :
            c \in NodeIds(currentGraph) \/ IsCrossBoundary(c)
    /\ \A i \in DOMAIN currentGraph.declared :
         LET node == currentGraph.declared[i]
         IN  \A ref \in Range(node.children) :
               /\ (~IsCrossBoundary(ref) /\ ref \notin NodeIds(currentGraph)) =>
                    /\ ~Includes(getChildren(currentGraph, node.id), ref)
                    /\ Cardinality(ChildNotFoundWarnings(currentGraph, node, ref))
                         = Cardinality(Occurrences(node.children, ref))
               /\ ref \in NodeIds(currentGraph) =>
                    Includes(getChildren(currentGraph, node.id), ref)

\* A declares GHOST, B, GHOST; B is a node and GHOST is not
C20_Witness ==
  /\ calls = 1
  /\ NodeIds(currentGraph) = {Id_A, Id_B}
  /\ GetNode(currentGraph.declared, Id_A).children = <<Ref_GHOST, Id_B, Ref_GHOST>>
  /\ getChildren(currentGraph, Id_A) = <<Id_B>>
  /\ Cardinality(ChildNotFoundWarnings(currentGraph,
                    GetNode(currentGraph.declared, Id_A), Ref_GHOST)) = 2

(***************************************************************************)
(* C21.  For every retained node, an entry of its declared children that   *)
(* is a cross-boundary reference is in its children list, whatever its     *)
(* external name; the warnings hold a missing-dependency warning of that   *)
(* node for that reference exactly when the external name is not one of    *)
(* the recognized names.                                                   *)
(***************************************************************************)
HasChildWarning(graph, node, ref) ==
  \E k \in DOMAIN graph.warnings :
    /\ graph.warnings[k].type = "missing-dependency"
    /\ graph.warnings[k].nodeId = node.id
    /\ graph.warnings[k].message.ref = ref

C21_CrossBoundaryChildren ==
  Built =>
    \A i \in DOMAIN currentGraph.declared :
       LET node == currentGraph.declared[i]
       IN  \A ref \in Range(node.children) :
              IsCrossBoundary(ref) =>
                /\ Includes(getChildren(currentGraph, node.id), ref)
                /\ HasChildWarning(currentGraph, node, ref)
                     <=> ~IsRecognizedCrossBoundary(ref)

(***************************************************************************)
(* The parsing functions on their own: one call of parseCrossRepoDependency *)
(* or of parseNumericId on a string drawn from a small alphabet.            *)
(***************************************************************************)
GraphIdle ==
  /\ records = <<>>
  /\ config = [repos |-> NoRepos]
  /\ topic = NoTopic
  /\ currentGraph = NoGraph
  /\ prevGraph = NoGraph
  /\ prevTopic = NoTopic
  /\ lastInput = <<>>
  /\ calls = 0

StringsOver(alphabet, maxLen) == UNION {[1..n -> alphabet] : n \in 0..maxLen}

MaxRefLen == 4

RefAlphabet == {"@", "a", "b"}

InitCrossRepo ==
  /\ callArg \in StringsOver(RefAlphabet, MaxRefLen)
  /\ callResult = NoResult
  /\ GraphIdle
  /\ NavigationIdle
  /\ IndexerIdle

ParseCrossRepoDependency ==
  /\ callResult = NoResult
  /\ callResult' = parseCrossRepoDependency(callArg)
  /\ UNCHANGED <<callArg, graphVars, navigationVars, indexerVars>>

NextCrossRepo == ParseCrossRepoDependency

SpecCrossRepo == InitCrossRepo /\ [][NextCrossRepo]_vars

MaxIdLen == 3

IdAlphabet == {"S", "-", "0", "1", "2", "7"}

InitNumericId ==
  /\ callArg \in StringsOver(IdAlphabet, MaxIdLen)
  /\ callResult = NoResult
  /\ GraphIdle
  /\ NavigationIdle
  /\ IndexerIdle

ParseNumericId ==
  /\ callResult = NoResult
  /\ callResult' = parseNumericId(callArg)
  /\ UNCHANGED <<callArg, graphVars, navigationVars, indexerVars>>

NextNumericId == ParseNumericId

SpecNumericId == InitNumericId /\ [][NextNumericId]_vars

(***************************************************************************)
(* C22.  parseCrossRepoDependency reports a string as external exactly     *)
(* when the string has an @ that is neither its first nor its last         *)
(* character, and then gives a non-empty repoName and a non-empty nodeId   *)
(* that, joined by @, are the string.                                      *)
(***************************************************************************)
C22_CrossBoundaryClassification ==
  callResult # NoResult =>
    /\ callResult.isExternal <=> IsCrossBoundary(callArg)
    /\ callResult.isExternal =>
         /\ callResult.repoName # NoString
         /\ callResult.nodeId # NoString
         /\ callResult.repoName \o <<"@">> \o callResult.nodeId = callArg

(***************************************************************************)
(* C23.  parseNumericId matches exactly the ids whose last character is a  *)
(* decimal digit; the suffix is the maximal trailing run of digits, the    *)
(* prefix is the rest of the id and the value is the decimal value of the  *)
(* run, for ids made only of digits as well.                               *)
(***************************************************************************)
TrailingRunStart(s) ==
  MinOf({k \in 1..(Len(s) + 1) : \A i \in k..Len(s) : IsDigit(s[i])})

RECURSIVE DecimalValue(_)
DecimalValue(s) ==
  IF Len(s) = 0 THEN 0
  ELSE 10 * DecimalValue(SubSeq(s, 1, Len(s) - 1)) + DigitValue(s[Len(s)])

C23_NumericIdentity ==
  callResult # NoResult =>
    LET start == TrailingRunStart(callArg)
        run   == SubSeq(callArg, start, Len(callArg))
    IN  /\ callResult.matched <=> (Len(callArg) > 0 /\ IsDigit(callArg[Len(callArg)]))
        /\ callResult.matched =>
             /\ callResult.originalSuffix = run
             /\ callResult.prefix = SubSeq(callArg, 1, start - 1)
             /\ callResult.numericValue = DecimalValue(run)

(***************************************************************************)
(* Graphs with cycles and shared descendants: the same buildGraph calls on *)
(* records that declare dependencies and children among three ids.         *)
(***************************************************************************)
\* self-loops by dependency and by child, two edges that close a cycle at
\* one node, a triangle, a node reached by two paths, two roots above a loop
PoolCycles ==
  Shapes({Id_A}, {"T"}, {NoString, Id_A}, {<<>>})
    \cup Shapes({Id_A}, {"T"}, {NoString}, {<<Id_A>>})
    \cup Shapes({Id_B, Id_C}, {"T"}, {NoString, Id_A}, {<<>>, <<Id_A>>})
    \cup Shapes({Id_B}, {"T"}, {Id_A}, {<<Id_C>>})
    \cup Shapes({Id_C}, {"T"}, {Id_B}, {<<Id_A>>})

FamiliesCycles ==
  {[pool |-> PoolCycles, configs |-> {[repos |-> NoRepos]}],
   [pool |-> PoolLocal,  configs |-> {[repos |-> NoRepos]}]}

InitCycles ==
  /\ \E fam \in FamiliesCycles :
       /\ \E n \in 0..MaxRecords : \E shapes \in [1..n -> fam.pool] :
            records = MakeRecords(shapes)
       /\ config \in fam.configs
  /\ topic = NoTopic
  /\ currentGraph = NoGraph
  /\ prevGraph = NoGraph
  /\ prevTopic = NoTopic
  /\ lastInput = <<>>
  /\ calls = 0
  /\ ParseIdle
  /\ NavigationIdle
  /\ IndexerIdle

SpecCycles == InitCycles /\ [][Next]_vars

(***************************************************************************)
(* C24.  The warnings of the returned graph hold at most one               *)
(* cycle-detected warning for one node id.                                 *)
(***************************************************************************)
CycleWarningsOf(graph, nodeId) ==
  {k \in DOMAIN graph.warnings :
     graph.warnings[k].type = "cycle-detected" /\ graph.warnings[k].nodeId = nodeId}

CycleWarnedIds(graph) ==
  {graph.warnings[k].nodeId : k \in {h \in DOMAIN graph.warnings :
                                       graph.warnings[h].type = "cycle-detected"}}

C24_OneCycleWarningPerNode ==
  Built => \A nodeId \in CycleWarnedIds(currentGraph) :
             Cardinality(CycleWarningsOf(currentGraph, nodeId)) = 1

\* the root A has the children B and C, and both have the child A
C24_Witness ==
  /\ calls = 1
  /\ currentGraph.roots = <<Id_A>>
  /\ getChildren(currentGraph, Id_A) = <<Id_B, Id_C>>
  /\ getChildren(currentGraph, Id_B) = <<Id_A>>
  /\ getChildren(currentGraph, Id_C) = <<Id_A>>
  /\ Cardinality(CycleWarningsOf(currentGraph, Id_A)) = 1

(***************************************************************************)
(* C25.  Every cycle-detected warning of the returned graph names a node   *)
(* that is on a directed cycle of the children mapping; when the mapping   *)
(* has no cycle there is no cycle-detected warning.                        *)
(***************************************************************************)
OnCycleOfMapping(graph, id) ==
  LET step(S) == UNION {Range(getChildren(graph, x)) : x \in S}
      RECURSIVE reach(_, _)
      reach(frontier, seen) ==
        IF frontier \subseteq seen THEN seen
        ELSE reach(step(frontier \ seen), seen \cup frontier)
  IN  id \in reach(step({id}), {})

C25_CycleWarningsSound ==
  Built =>
    /\ \A nodeId \in CycleWarnedIds(currentGraph) : OnCycleOfMapping(currentGraph, nodeId)
    /\ (\A p \in DOMAIN currentGraph.childrenByDependencyId :
           ~OnCycleOfMapping(currentGraph, p))
         => CycleWarnedIds(currentGraph) = {}

\* C is a child of the root A and of A's child B; nothing is cyclic
C25_Witness ==
  /\ calls = 1
  /\ currentGraph.roots = <<Id_A>>
  /\ getChildren(currentGraph, Id_A) = <<Id_B, Id_C>>
  /\ getChildren(currentGraph, Id_B) = <<Id_C>>
  /\ getChildren(currentGraph, Id_C) = <<>>
  /\ currentGraph.warnings = <<>>

(***************************************************************************)
(* C26.  For the returned graph and every node of it taken as the current  *)
(* node, buildBreadcrumbs returns a list that holds every node of the node *)
(* map exactly once, with isCurrent true of the current node only.         *)
(***************************************************************************)
C26_BreadcrumbsCoverNodes ==
  Built =>
    \A currentNodeId \in NodeIds(currentGraph) :
       LET breadcrumbs == buildBreadcrumbs(currentGraph, currentNodeId)
       IN  /\ \A nodeId \in NodeIds(currentGraph) :
                Cardinality({k \in DOMAIN breadcrumbs : breadcrumbs[k].id = nodeId}) = 1
           /\ \A k \in DOMAIN breadcrumbs :
                /\ breadcrumbs[k].id \in NodeIds(currentGraph)
                /\ breadcrumbs[k].isCurrent <=> breadcrumbs[k].id = currentNodeId

(***************************************************************************)
(* extension.ts: activate and FlowDocUriHandler.  activate runs to its     *)
(* first await after the handler is registered (isGitRepository), then to  *)
(* the end of fullScan; handleUri and processPendingNavigation have no     *)
(* await before their last statement and run as one step each.  records    *)
(* are the nodes of the workspace files, which fullScan puts in the index. *)
(***************************************************************************)
MaxRequests == 3

WorkspaceNodes ==
  MakeRecords(<<[id |-> Id_A, topic |-> "T", dependency |-> NoString, children |-> <<>>],
                [id |-> Id_B, topic |-> "T", dependency |-> Id_A, children |-> <<>>]>>)

Uris == [path : {"/open", "/other"}, topic : {"", "T", "U"}, nodeId : {NoString, Id_A, Id_C}]

HandlerRegistered == activatePc \in {"isGitRepository", "fullScan", "activated"}

\* indexer.getNodesByTopic(topic): the index is filled by fullScan only
getNodesByTopic(t) ==
  IF isGitRepo /\ activatePc \in {"fullScan", "activated"}
    THEN filterByTopic(records, t) ELSE <<>>

\* processPendingNavigation, called with pendingNavigation set
processPendingNavigation(pending) ==
  LET nodes == getNodesByTopic(pending.topic)
      done(outcome) ==
        processedRequests' =
          processedRequests \cup {[request |-> pending.request, outcome |-> outcome]}
  IN  /\ pendingNavigation' = NoNavigation
      /\ IF Len(nodes) = 0
            THEN /\ done("topic-not-found")
                 /\ UNCHANGED <<records, currentGraph, topic>>
          ELSE IF ~HasNode(nodes, pending.nodeId)
            THEN /\ done("node-not-found")
                 /\ UNCHANGED <<records, currentGraph, topic>>
          ELSE LET graph == buildGraph(nodes, pending.topic, config)
               IN  /\ done("navigated")
                   /\ currentGraph' = graph
                   /\ records' = writeBack(records, graph)
                   /\ topic' = pending.topic

InitNavigation ==
  /\ records = WorkspaceNodes
  /\ config = [repos |-> NoRepos]
  /\ topic = NoTopic
  /\ currentGraph = NoGraph
  /\ prevGraph = NoGraph
  /\ prevTopic = NoTopic
  /\ lastInput = <<>>
  /\ calls = 0
  /\ activatePc = "not-activated"
  /\ isGitRepo \in BOOLEAN
  /\ pendingNavigation = NoNavigation
  /\ indexingComplete = FALSE
  /\ receivedRequests = {}
  /\ processedRequests = {}
  /\ ParseIdle
  /\ IndexerIdle

\* activate up to `await isGitRepository(workspaceRoot)`, or its early return
Activate ==
  /\ activatePc = "not-activated"
  /\ \E workspaceFolder \in BOOLEAN :
       activatePc' = IF workspaceFolder THEN "isGitRepository" ELSE "no-workspace"
  /\ UNCHANGED <<graphVars, parseVars, indexerVars, isGitRepo, pendingNavigation,
                 indexingComplete, receivedRequests, processedRequests>>

\* isGitRepository resolves: activate goes on to `await indexer.fullScan()`, or
\* takes the else branch and marks indexing complete
GitCheckResolves ==
  /\ activatePc = "isGitRepository"
  /\ IF isGitRepo
       THEN /\ activatePc' = "fullScan"
            /\ UNCHANGED indexingComplete
       ELSE /\ activatePc' = "activated"
            /\ indexingComplete' = TRUE
  /\ UNCHANGED <<graphVars, parseVars, indexerVars, isGitRepo, pendingNavigation,
                 receivedRequests, processedRequests>>

\* fullScan resolves: lines 337-342
FullScanCompletes ==
  /\ activatePc = "fullScan"
  /\ activatePc' = "activated"
  /\ indexingComplete' = TRUE
  /\ IF pendingNavigation # NoNavigation
       THEN processPendingNavigation(pendingNavigation)
       ELSE UNCHANGED <<pendingNavigation, processedRequests, records, currentGraph, topic>>
  /\ UNCHANGED <<config, prevGraph, prevTopic, lastInput, calls, parseVars, indexerVars,
                 isGitRepo, receivedRequests>>

HandleUri(uri) ==
  /\ HandlerRegistered
  /\ Cardinality(receivedRequests) < MaxRequests
  /\ LET request == Cardinality(receivedRequests) + 1
         pending == [topic |-> uri.topic, nodeId |-> uri.nodeId, request |-> request]
     IN  /\ receivedRequests' = receivedRequests \cup {request}
         /\ IF uri.path # "/open" \/ uri.topic = "" \/ uri.nodeId = NoString
              THEN UNCHANGED <<pendingNavigation, processedRequests, records, currentGraph, topic>>
            ELSE IF indexingComplete
              THEN processPendingNavigation(pending)
            ELSE /\ pendingNavigation' = pending
                 /\ UNCHANGED <<processedRequests, records, currentGraph, topic>>
  /\ UNCHANGED <<config, prevGraph, prevTopic, lastInput, calls, parseVars, indexerVars,
                 activatePc, isGitRepo, indexingComplete>>

ActivateSteps == Activate \/ GitCheckResolves \/ FullScanCompletes

NextNavigation == ActivateSteps \/ \E uri \in Uris : HandleUri(uri)

\* the extension host runs activate to its end; nothing makes a URI arrive
SpecNavigation == InitNavigation /\ [][NextNavigation]_vars /\ WF_vars(ActivateSteps)

(***************************************************************************)
(* C27.  Whenever a navigation request is pending, pendingNavigation is    *)
(* cleared later by processPendingNavigation, whether or not the workspace *)
(* is a git repository: no request stays pending forever.                  *)
(***************************************************************************)
C27_PendingIsProcessed ==
  (pendingNavigation # NoNavigation) ~> (pendingNavigation = NoNavigation)

(***************************************************************************)
(* C28.  When no record of the requested topic declares a dependency or    *)
(* children, the children mapping of the returned graph has no directed    *)
(* cycle and the warnings hold no cycle-detected warning, also when ids    *)
(* share one prefix and numeric value.                                     *)
(***************************************************************************)
InputDeclaresNoEdge ==
  \A i \in DOMAIN lastInput :
     lastInput[i].topic = topic =>
       lastInput[i].dependency = NoString /\ lastInput[i].children = <<>>

C28_AutoLinkerAcyclic ==
  (Built /\ InputDeclaresNoEdge) =>
    /\ \A p \in DOMAIN currentGraph.childrenByDependencyId :
         ~OnCycleOfMapping(currentGraph, p)
    /\ CycleWarnedIds(currentGraph) = {}

\* S-02 and S-2 share the value 2 and both gain S-3 as a child
C28_Witness ==
  /\ calls = 1
  /\ InputDeclaresNoEdge
  /\ NodeIds(currentGraph) = {Id_S02, Id_S2, Id_S3}
  /\ getChildren(currentGraph, Id_S02) = <<Id_S3>>
  /\ getChildren(currentGraph, Id_S2) = <<Id_S3>>

(***************************************************************************)
(* Order of the input: the same buildGraph calls on the records that have  *)
(* ids with a numeric suffix and declared dependencies.                    *)
(***************************************************************************)
FamiliesOrder ==
  {[pool |-> PoolNumeric, configs |-> {[repos |-> NoRepos]}],
   [pool |-> PoolMixed,   configs |-> {[repos |-> NoRepos]}]}

InitOrder ==
  /\ \E fam \in FamiliesOrder :
       /\ \E n \in 0..MaxRecords : \E shapes \in [1..n -> fam.pool] :
            records = MakeRecords(shapes)
       /\ config \in fam.configs
  /\ topic = NoTopic
  /\ currentGraph = NoGraph
  /\ prevGraph = NoGraph
  /\ prevTopic = NoTopic
  /\ lastInput = <<>>
  /\ calls = 0
  /\ ParseIdle
  /\ NavigationIdle
  /\ IndexerIdle

SpecOrder == InitOrder /\ [][Next]_vars

(***************************************************************************)
(* C29.  For input records of one topic with unique ids, no declared       *)
(* children and no two ids with the same prefix and numeric value, every   *)
(* permutation of the input gives the same root list, the same children    *)
(* mapping and the same final dependency of every node.                    *)
(***************************************************************************)
InputOrders(n) ==
  {f \in [1..n -> 1..n] : \A i, j \in 1..n : f[i] = f[j] => i = j}

Permuted(nodes, f) == [i \in DOMAIN nodes |-> nodes[f[i]]]

CleanInput(nodes, t) ==
  /\ \A i \in DOMAIN nodes : nodes[i].topic = t /\ nodes[i].children = <<>>
  /\ \A i, j \in DOMAIN nodes :
        i # j =>
          /\ nodes[i].id # nodes[j].id
          /\ ~(/\ parseNumericId(nodes[i].id).matched
               /\ parseNumericId(nodes[j].id).matched
               /\ KeyOf(nodes[i].id) = KeyOf(nodes[j].id))

FinalDependencies(graph) ==
  {<<graph.nodesById[i].id, graph.nodesById[i].dependency>> : i \in DOMAIN graph.nodesById}

OrderFreePart(graph) ==
  [roots |-> graph.roots, childrenByDependencyId |-> graph.childrenByDependencyId,
   dependencies |-> FinalDependencies(graph)]

C29_OrderIndependent ==
  (Built /\ CleanInput(lastInput, topic)) =>
     \A f \in InputOrders(Len(lastInput)) :
        OrderFreePart(buildGraph(Permuted(lastInput, f), topic, config))
          = OrderFreePart(currentGraph)

\* S-3, S-1, S-2 in this order: S-1 is the only root
C29_Witness ==
  /\ calls = 1
  /\ CleanInput(lastInput, topic)
  /\ Len(lastInput) = 3
  /\ lastInput[1].id = Id_S3 /\ lastInput[2].id = Id_S1 /\ lastInput[3].id = Id_S2
  /\ currentGraph.roots = <<Id_S1>>
  /\ getChildren(currentGraph, Id_S2) = <<Id_S3>>

(***************************************************************************)
(* workspaceIndexer.ts: one watched file.  document is the file on disk    *)
(* (its content is the list of tagged blocks in it), nodesByFile the entry *)
(* of index.nodesByFile for its path.  An indexFile call awaits            *)
(* openTextDocument, which reads the file or throws when it is gone, and   *)
(* writes the index when it is resumed; removeFile runs when the watcher   *)
(* delivers the delete event.                                              *)
(***************************************************************************)
MaxIndexCalls == 2

Contents ==
  {<<>>,
   <<[id |-> Id_A, topic |-> "T", dependency |-> NoString, children |-> <<>>]>>,
   <<[id |-> Id_A, topic |-> "T", dependency |-> NoString, children |-> <<>>],
     [id |-> Id_B, topic |-> "T", dependency |-> Id_A, children |-> <<>>]>>}

\* the parser returns one node for each tagged block of the content
parseFile(content) == MakeRecords(content)

\* lines 175-179: set the entry, or delete it when the file has no node
StoreNodes(nodes) ==
  IF Len(nodes) > 0 THEN [has |-> TRUE, nodes |-> nodes] ELSE NoNodes

InitIndexer ==
  /\ \E content \in Contents :
       /\ document = [exists |-> TRUE, content |-> content]
       /\ nodesByFile = StoreNodes(parseFile(content))
  /\ indexFileCalls = <<>>
  /\ deleteEvent = "none"
  /\ GraphIdle
  /\ ParseIdle
  /\ NavigationIdle

\* the file is saved: onDidChange calls reindexFile, which calls indexFile
SaveFile(content) ==
  /\ document.exists
  /\ Len(indexFileCalls) < MaxIndexCalls
  /\ document' = [exists |-> TRUE, content |-> content]
  /\ indexFileCalls' = Append(indexFileCalls, [pc |-> "openTextDocument", nodes |-> <<>>])
  /\ UNCHANGED <<nodesByFile, deleteEvent, graphVars, parseVars, navigationVars>>

\* openTextDocument settles: lines 172-174, or the catch of line 180
OpenTextDocument(k) ==
  /\ indexFileCalls[k].pc = "openTextDocument"
  /\ indexFileCalls' =
       [indexFileCalls EXCEPT ![k] =
          IF document.exists
            THEN [pc |-> "write", nodes |-> parseFile(document.content)]
            ELSE [pc |-> "failed", nodes |-> <<>>]]
  /\ UNCHANGED <<document, nodesByFile, deleteEvent, graphVars, parseVars, navigationVars>>

\* the call is resumed: lines 175-179
WriteIndex(k) ==
  /\ indexFileCalls[k].pc = "write"
  /\ nodesByFile' = StoreNodes(indexFileCalls[k].nodes)
  /\ indexFileCalls' = [indexFileCalls EXCEPT ![k].pc = "done"]
  /\ UNCHANGED <<document, deleteEvent, graphVars, parseVars, navigationVars>>

\* the file is deleted on disk; the watcher will deliver onDidDelete
DeleteFile ==
  /\ document.exists
  /\ document' = NoDocument
  /\ deleteEvent' = "pending"
  /\ UNCHANGED <<nodesByFile, indexFileCalls, graphVars, parseVars, navigationVars>>

\* onDidDelete: removeFile
RemoveFile ==
  /\ deleteEvent = "pending"
  /\ nodesByFile' = NoNodes
  /\ deleteEvent' = "handled"
  /\ UNCHANGED <<document, indexFileCalls, graphVars, parseVars, navigationVars>>

NextIndexer ==
  \/ \E content \in Contents : SaveFile(content)
  \/ \E k \in DOMAIN indexFileCalls : OpenTextDocument(k)
  \/ \E k \in DOMAIN indexFileCalls : WriteIndex(k)
  \/ DeleteFile
  \/ RemoveFile

SpecIndexer == InitIndexer /\ [][NextIndexer]_vars

(***************************************************************************)
(* C30.  Once removeFile has handled the delete event of the file and      *)
(* every indexFile call for it has finished, index.nodesByFile holds no    *)
(* entry for the file, whatever the interleaving of the calls.             *)
(***************************************************************************)
AllIndexCallsFinished ==
  \A k \in DOMAIN indexFileCalls : indexFileCalls[k].pc \in {"done", "failed"}

C30_DeletedFileNotIndexed ==
  (deleteEvent = "handled" /\ AllIndexCallsFinished) => ~nodesByFile.has

====
